---- MODULE Spec2Model ----
(***************************************************************************)
(* async_tiny: the request bridge of src/src/lib.rs.                       *)
(*                                                                         *)
(* Server::http creates the bounded mpsc channel (the Bridge Queue) and    *)
(* spawns the acceptance task; each accepted connection runs the           *)
(* service_fn closure once per parsed message: it builds a Request with a  *)
(* fresh oneshot channel (the Reply Slot), pushes it with tx.send, awaits  *)
(* resp_rx and returns the response hyper writes to the connection.  The   *)
(* consumer pulls with Server::next and answers with Request::respond;     *)
(* Drop for Request sends the 500 fallback.                                *)
(***************************************************************************)
EXTENDS Integers, Sequences, FiniteSets, TLC

(* ----- bounds of the model ----------------------------------------------*)
\* connections the acceptance loop accepts
NumConns == 3
\* parsed messages handed to service_fn, over all connections
MaxReqs == 3
\* largest capacity the mpsc channel is created with; lib.rs 39 passes
\* 1024, the model runs the bridge with every capacity 1..MaxCapacity
MaxCapacity == 2
\* times Server::next is observed to return None
MaxNone == 2

\* longest line handed to Header::from_str
MaxLine == 5
\* most builder calls applied to one Response
MaxSteps == 3

Conns == 1..NumConns
Reqs == 1..MaxReqs

(* ----- Response (lib.rs 178-232) and its conversion (lib.rs 277-294) ----*)
\* Option<Response>: None is the empty sequence, Some(x) is <<x>>
None == <<>>
Some(x) == <<x>>

\* respond() has not been called
NotCalled == "none"

\* HeaderMap::new()
EmptyHeaders == <<>>

\* StatusCode::OK, the unwrap_or default
StatusOK == 200
StatusInternalServerError == 500
StatusServiceUnavailable == 503

\* mutant: a rejected code falls back to 500
FromU16OrOK_Default500(code) ==
  IF code >= 100 /\ code < 1000 THEN code ELSE StatusInternalServerError

\* StatusCode::from_u16: Ok for 100..=999, Err otherwise; .unwrap_or(OK)
FromU16OrOK(code) ==
  IF code >= 100 /\ code < 1000 THEN code ELSE StatusOK

\* Response::from_status_and_string
from_status_and_string(code, s) ==
  [status |-> FromU16OrOK(code), headers |-> EmptyHeaders, body |-> s]

\* Response::from_string / from_data
from_string(s) ==
  [status |-> StatusOK, headers |-> EmptyHeaders, body |-> s]

\* Response::from_data (lib.rs 187-193)
from_data(data) ==
  [status |-> StatusOK, headers |-> EmptyHeaders, body |-> data]

\* Response::empty (lib.rs 208-215): the body is Bytes::new()
empty(status) ==
  [status |-> FromU16OrOK(status), headers |-> EmptyHeaders, body |-> ""]

\* Response::with_status_code
with_status_code(r, code) ==
  [r EXCEPT !.status = FromU16OrOK(code)]

\* mutant: HeaderMap::append, the pair is added beside the ones present
HeaderInsert_Append(h, name, value) == Append(h, <<name, value>>)

\* HeaderMap::insert: replaces the values of a name already present,
\* appends the pair otherwise
RECURSIVE HeaderInsert(_, _, _)
HeaderInsert(h, name, value) ==
  IF h = <<>> THEN << <<name, value>> >>
  ELSE IF Head(h)[1] = name THEN << <<name, value>> >> \o Tail(h)
  ELSE <<Head(h)>> \o HeaderInsert(Tail(h), name, value)

\* Response::with_header
with_header(r, name, value) ==
  [r EXCEPT !.headers = HeaderInsert(r.headers, name, value)]

\* mutant: the headers of the Response are not copied
to_hyper_response_NoHeaders(r) ==
  [status |-> r.status, headers |-> <<>>, body |-> r.body]

\* to_hyper_response: builder.status(r.status), every header appended in
\* iteration order, body Full::new(r.body)
RECURSIVE AppendHeaders(_, _)
AppendHeaders(built, rest) ==
  IF rest = <<>> THEN built
  ELSE AppendHeaders(Append(built, Head(rest)), Tail(rest))

to_hyper_response(r) ==
  [status |-> r.status,
   headers |-> AppendHeaders(<<>>, r.headers),
   body |-> r.body]

\* response_text(status, text)
response_text(status, text) ==
  to_hyper_response(
    with_header(from_status_and_string(status, text),
                "content-type", "text/plain; charset=utf-8"))

\* mutant: the fallback built with a code from_u16 rejects, so 200
DropResponse_BadCode == from_status_and_string(5000, "No response")

\* the Response Drop for Request sends (lib.rs 167)
DropResponse == from_status_and_string(500, "No response")

\* the response returned when tx.send fails (lib.rs 89-92)
Unavailable503 == response_text(StatusServiceUnavailable, "Service Unavailable")

\* the response returned when resp_rx.await fails (lib.rs 97-100)
Internal500 == response_text(StatusInternalServerError, "Internal Server Error")

(* ----- Header (lib.rs 235-268) -------------------------------------------*)
\* a &str is the sequence of its characters, each a one-character string;
\* "^A" stands for the control character 0x01
UpperChars == {"A", "C", "T"}
LowerChars == {"a", "b", "c", "e", "n", "o", "p", "t", "y"}
\* the characters HeaderName::from_bytes accepts (RFC 7230 token)
TokenChars == UpperChars \cup LowerChars \cup {"-"}
\* the characters str::trim removes
WhiteSpace == {" "}
\* the bytes HeaderValue::from_str rejects
ControlChars == {"^A"}

\* Result<T, E>
Ok(x) == [tag |-> "Ok", val |-> x]
Err(e) == [tag |-> "Err", err |-> e]

\* struct Header(pub HeaderName, pub HeaderValue) (lib.rs 235)
Header(name, value) == <<name, value>>

\* HeaderName holds the name in lower case
ToLowerChar(ch) ==
  CASE ch = "A" -> "a" [] ch = "C" -> "c" [] ch = "T" -> "t" [] OTHER -> ch

RECURSIVE ToLower(_)
ToLower(s) ==
  IF s = <<>> THEN <<>> ELSE <<ToLowerChar(Head(s))>> \o ToLower(Tail(s))

\* HeaderName::from_bytes: Some(normalised name) for a non-empty token
HeaderName_from_bytes(name) ==
  IF name # <<>> /\ \A i \in 1..Len(name) : name[i] \in TokenChars
    THEN Some(ToLower(name)) ELSE None

\* HeaderValue::from_str: Some(value) unless a byte is a control character
HeaderValue_from_str(value) ==
  IF \A i \in 1..Len(value) : value[i] \notin ControlChars
    THEN Some(value) ELSE None

\* Header::new (lib.rs 239-245): the name is checked before the value,
\* neither is trimmed
Header_new(name, value) ==
  IF HeaderName_from_bytes(name) = None THEN Err("InvalidName")
  ELSE IF HeaderValue_from_str(value) = None THEN Err("InvalidValue")
  ELSE Ok(Header(HeaderName_from_bytes(name)[1],
                 HeaderValue_from_str(value)[1]))

\* str::trim
RECURSIVE trim_start(_)
trim_start(s) ==
  IF s # <<>> /\ Head(s) \in WhiteSpace THEN trim_start(Tail(s)) ELSE s

RECURSIVE trim_end(_)
trim_end(s) ==
  IF s # <<>> /\ s[Len(s)] \in WhiteSpace
    THEN trim_end(SubSeq(s, 1, Len(s) - 1)) ELSE s

trim(s) == trim_end(trim_start(s))

\* mutant: rsplitn(2, ':'), the line is cut at its last colon
splitn_Last(s) ==
  IF \A i \in 1..Len(s) : s[i] # ":" THEN <<s>>
  ELSE LET i == CHOOSE k \in 1..Len(s) :
                  s[k] = ":" /\ \A j \in (k+1)..Len(s) : s[j] # ":"
       IN <<SubSeq(s, 1, i - 1), SubSeq(s, i + 1, Len(s))>>

\* s.splitn(2, ':') (lib.rs 259): the whole line if it has no colon, else
\* the part before the first colon and everything after it
splitn(s) ==
  IF \A i \in 1..Len(s) : s[i] # ":" THEN <<s>>
  ELSE LET i == CHOOSE k \in 1..Len(s) :
                  s[k] = ":" /\ \A j \in 1..(k-1) : s[j] # ":"
       IN <<SubSeq(s, 1, i - 1), SubSeq(s, i + 1, Len(s))>>

\* impl FromStr for Header (lib.rs 258-267): InvalidFormat without a second
\* part, then the checks of lib.rs 263-265, those of Header::new, on the
\* trimmed parts
Header_from_str(s) ==
  LET it == splitn(s) IN
    IF Len(it) < 2 THEN Err("InvalidFormat")
    ELSE Header_new(trim(it[1]), trim(it[2]))

\* the name with_content_type puts before the value (lib.rs 229)
ContentType == <<"C", "o", "n", "t", "e", "n", "t", "-", "T", "y", "p", "e">>

\* Header::from_str(&format!("Content-Type: {}", value)) (lib.rs 228-229)
ContentTypeHeader(value) ==
  Header_from_str(ContentType \o <<":", " ">> \o value)

\* Response::with_content_type (lib.rs 227-231), where .expect returns:
\* on an Err it panics and there is no Response
with_content_type(r, value) ==
  LET header == ContentTypeHeader(value).val IN
    with_header(r, header[1], header[2])

\* the Responses the consumer answers with (examples/hello.rs 10 and one
\* with an explicit status and a header)
UserResponses ==
  { from_string("Hello from async_tiny!"),
    with_header(from_status_and_string(404, "nope"), "x-reason", "missing") }

(* ----- state --------------------------------------------------------------*)
VARIABLES
  httpResult,  \* what Server::http returned to its caller: "none", "Err", "Ok"
  capacity,    \* the capacity mpsc::channel was created with (0: no channel)
  server,      \* the Server value (rx and _join): "none", "live", "dropped"
  acceptor,    \* the spawned acceptance task: "none", "spawned", "listening", "panicked"
  conn,        \* per connection: pc of its task and the Request it is serving
  nextReq,     \* the next Request a connection task will build
  owner,       \* the connection whose task built the Request (0: not built)
  queue,       \* the buffer of the mpsc channel, oldest first
  where,       \* where the Request value is, or how it was discarded
  respond_tx,  \* Request.respond_tx is Some
  resp_rx,     \* the oneshot Receiver is alive in the connection task
  slot,        \* the value stored in the oneshot channel: None or Some(Response)
  written,     \* the responses service_fn returned to hyper for the Request
  result,      \* what respond() returned for the Request, NotCalled before
  sent,        \* the Response passed to respond(): None or Some(Response)
  nextRet,     \* what the last Server::next returned: "none", "Some", "None"
  noneCount,   \* how often Server::next has returned None (capped by MaxNone)
  sends,       \* history: the values passed to the oneshot Sender of the Request
  line,        \* Header::from_str: the line being parsed
  parsed,      \* Header::from_str: None, or Some(result) once parsed
  resp,        \* Response builders: None, or Some(Response) under construction
  made,        \* Response builders: the constructor call and its arguments
  steps        \* Response builders: the builder calls applied so far

vars == <<httpResult, capacity, server, acceptor, conn, nextReq, owner, queue, where,
          respond_tx, resp_rx, slot, written, result, sent, nextRet, noneCount,
          sends, line, parsed, resp, made, steps>>

reqVars == <<where, respond_tx, resp_rx, slot, written, result, sent>>
mainVars == <<httpResult, capacity, server, nextRet, noneCount>>
\* the state of the bridge; the pure functions leave it alone
bridgeVars == <<httpResult, capacity, server, acceptor, conn, nextReq, owner,
                queue, reqVars, nextRet, noneCount, sends>>
\* the values the pure functions of the crate are applied to; the bridge
\* leaves them alone
pureVars == <<line, parsed, resp, made, steps>>

\* the task of connection c is running (it owns a clone of tx)
Alive(c) == conn[c].pc \in {"reading", "sending", "awaiting"}

\* mutant: the acceptance task holds no Sender of its own, only the
\* connection tasks do
Senders_ConnsOnly ==
  Cardinality({c \in Conns : Alive(c)})

\* live Sender handles of the mpsc channel: tx_clone in the acceptance task
\* (lib.rs 42, 64) and one clone per connection task (lib.rs 64, 69); the
\* original tx is dropped when Server::http returns
Senders ==
  (IF acceptor \in {"spawned", "listening"} THEN 1 ELSE 0)
  + Cardinality({c \in Conns : Alive(c)})

InitBridge ==
  /\ httpResult = "none"
  /\ capacity = 0
  /\ server = "none"
  /\ acceptor = "none"
  /\ conn = [c \in Conns |-> [pc |-> "unaccepted", cur |-> 0]]
  /\ nextReq = 1
  /\ owner = [r \in Reqs |-> 0]
  /\ queue = <<>>
  /\ where = [r \in Reqs |-> "unbuilt"]
  /\ respond_tx = [r \in Reqs |-> FALSE]
  /\ resp_rx = [r \in Reqs |-> FALSE]
  /\ slot = [r \in Reqs |-> None]
  /\ written = [r \in Reqs |-> <<>>]
  /\ result = [r \in Reqs |-> NotCalled]
  /\ sent = [r \in Reqs |-> None]
  /\ nextRet = "none"
  /\ noneCount = 0
  /\ sends = [r \in Reqs |-> <<>>]

\* no Header line is being parsed
InitNoLine == line = <<>> /\ parsed = None

\* no Response is being built
InitNoResponse == resp = None /\ made = None /\ steps = <<>>

Init == InitBridge /\ InitNoLine /\ InitNoResponse

(* ----- Server::http (lib.rs 38-121) --------------------------------------*)
\* what Server::http returns: addr.parse() fails and the error is returned
\* with ? (lib.rs 40); otherwise Ok(Server) (lib.rs 120)
HttpReturn(addrValid) == IF addrValid THEN "Ok" ELSE "Err"

\* mpsc::channel(cap) is created; on a parse error the channel is dropped
\* with the call, otherwise the acceptance task is spawned with tx_clone
\* and the Server is returned at once, before the task has run
http(addrValid, cap) ==
  /\ httpResult = "none"
  /\ httpResult' = HttpReturn(addrValid)
  /\ IF HttpReturn(addrValid) = "Ok"
       THEN /\ capacity' = cap
            /\ server' = "live"
            /\ acceptor' = "spawned"
       ELSE UNCHANGED <<capacity, server, acceptor>>
  /\ UNCHANGED <<conn, nextReq, owner, queue, reqVars, nextRet, noneCount, sends, pureVars>>

\* the state of the acceptance task after TcpListener::bind(addr).await
\* .expect("bind failed") (lib.rs 47): a failed bind panics the task, which
\* drops tx_clone
AfterBind(bindOk) == IF bindOk THEN "listening" ELSE "panicked"

Bind(bindOk) ==
  /\ acceptor = "spawned"
  /\ acceptor' = AfterBind(bindOk)
  /\ UNCHANGED <<mainVars, conn, nextReq, owner, queue, reqVars,
                 sends, pureVars>>

\* listener.accept() returned a stream: a connection task is spawned with
\* its own clone of tx (lib.rs 53-66).  Connections are numbered in the
\* order the loop accepts them.  The task is detached: it keeps running
\* after the Server and its JoinHandle are dropped
Accept(c) ==
  /\ acceptor = "listening"
  /\ conn[c].pc = "unaccepted"
  /\ \A d \in Conns : d < c => conn[d].pc # "unaccepted"
  /\ conn' = [conn EXCEPT ![c].pc = "reading"]
  /\ UNCHANGED <<mainVars, acceptor, nextReq, owner, queue, reqVars, sends, pureVars>>

(* ----- the service_fn closure (lib.rs 68-105) ----------------------------*)
\* mutant: an unbounded channel, a send never waits for a place
SendOutcome_Unbounded ==
  IF server = "dropped" THEN "Err" ELSE "Ok"

\* mutant: the drop of the Receiver does not close the channel
SendOutcome_NeverClosed ==
  IF Len(queue) < capacity THEN "Ok" ELSE "Pending"

\* the outcome of polling tx.send(request) (lib.rs 88): an error once the
\* Receiver is dropped, a place on the queue if there is one, Pending else
SendOutcome ==
  IF server = "dropped" THEN "Err"
  ELSE IF Len(queue) < capacity THEN "Ok"
  ELSE "Pending"

\* mutant: Drop sends the fallback whether or not respond() took the Sender
DropSend_Always(tx) == <<DropResponse>>

\* the values Drop for Request passes to the oneshot Sender (lib.rs
\* 164-170): the 500 Response if respond_tx is still Some (tx), nothing if
\* respond() has taken it
DropSend(tx) == IF tx THEN <<DropResponse>> ELSE <<>>

\* mutant: the fallback of Drop does not reach the oneshot channel
SlotAfterDrop_Lost(r) == slot[r]

\* what Drop for Request leaves in the oneshot channel (lib.rs 164-170):
\* the 500 Response if respond_tx is still Some and the Receiver is alive
SlotAfterDrop(r) ==
  IF respond_tx[r] /\ resp_rx[r] THEN Some(DropResponse) ELSE slot[r]

\* mutant: the Request is built with respond_tx: None
SendOk_NoSender(c, r) ==
  /\ queue' = Append(queue, r)
  /\ where' = [where EXCEPT ![r] = "queue"]
  /\ respond_tx' = [respond_tx EXCEPT ![r] = FALSE]
  /\ resp_rx' = [resp_rx EXCEPT ![r] = TRUE]
  /\ conn' = [conn EXCEPT ![c] = [pc |-> "awaiting", cur |-> r]]
  /\ UNCHANGED <<slot, written, sends>>

\* tx.send(request).await completed with Ok: the Request is on the queue
\* and the task goes on to resp_rx.await (lib.rs 95)
SendOk(c, r) ==
  /\ queue' = Append(queue, r)
  /\ where' = [where EXCEPT ![r] = "queue"]
  /\ respond_tx' = [respond_tx EXCEPT ![r] = TRUE]
  /\ resp_rx' = [resp_rx EXCEPT ![r] = TRUE]
  /\ conn' = [conn EXCEPT ![c] = [pc |-> "awaiting", cur |-> r]]
  /\ UNCHANGED <<slot, written, sends>>

\* the response the closure returns when tx.send failed (lib.rs 88-93)
SendFailedResponse == Unavailable503

\* mutant: the error of tx.send is ignored and the task goes on to await
\* the slot, which the dropped Request has filled with 500
SendErr_AwaitSlot(c, r) ==
  /\ where' = [where EXCEPT ![r] = "dropped_failed_enqueue"]
  /\ respond_tx' = [respond_tx EXCEPT ![r] = FALSE]
  /\ resp_rx' = [resp_rx EXCEPT ![r] = TRUE]
  /\ slot' = [slot EXCEPT ![r] = Some(DropResponse)]
  /\ conn' = [conn EXCEPT ![c] = [pc |-> "awaiting", cur |-> r]]
  /\ sends' = [sends EXCEPT ![r] = @ \o DropSend(TRUE)]
  /\ UNCHANGED <<queue, written>>

\* tx.send(request).await completed with Err(SendError(request)): the
\* Request inside the error is dropped (its Drop sends 500 into the slot),
\* the closure returns 503 and resp_rx is dropped unread with that value
SendErr(c, r) ==
  /\ where' = [where EXCEPT ![r] = "dropped_failed_enqueue"]
  /\ respond_tx' = [respond_tx EXCEPT ![r] = FALSE]
  /\ resp_rx' = [resp_rx EXCEPT ![r] = FALSE]
  /\ slot' = [slot EXCEPT ![r] = None]
  /\ written' = [written EXCEPT ![r] = Append(@, SendFailedResponse)]
  /\ conn' = [conn EXCEPT ![c] = [pc |-> "reading", cur |-> 0]]
  /\ sends' = [sends EXCEPT ![r] = @ \o DropSend(TRUE)]
  /\ UNCHANGED <<queue>>

\* tx.send(request).await is Pending: the queue is full and the task is
\* suspended with the Request inside the send future
SendPending(c, r) ==
  /\ where' = [where EXCEPT ![r] = "task"]
  /\ respond_tx' = [respond_tx EXCEPT ![r] = TRUE]
  /\ resp_rx' = [resp_rx EXCEPT ![r] = TRUE]
  /\ conn' = [conn EXCEPT ![c] = [pc |-> "sending", cur |-> r]]
  /\ UNCHANGED <<queue, slot, written, sends>>

\* one poll of tx.send(request).await for Request r of connection c
Send(c, r) ==
  IF SendOutcome = "Ok" THEN SendOk(c, r)
  ELSE IF SendOutcome = "Err" THEN SendErr(c, r)
  ELSE SendPending(c, r)

\* hyper hands the closure a parsed message: the body is collected, the
\* oneshot channel and the Request are built (lib.rs 71-86) and
\* tx.send(request) is polled (lib.rs 88)
ReadMessage(c) ==
  /\ conn[c].pc = "reading"
  /\ nextReq \in Reqs
  /\ owner' = [owner EXCEPT ![nextReq] = c]
  /\ nextReq' = nextReq + 1
  /\ Send(c, nextReq)
  /\ UNCHANGED <<mainVars, acceptor, result, sent, pureVars>>

\* a task suspended in tx.send is woken: a place was freed or the Receiver
\* was dropped
SendResume(c) ==
  /\ conn[c].pc = "sending"
  /\ SendOutcome # "Pending"
  /\ Send(c, conn[c].cur)
  /\ UNCHANGED <<mainVars, acceptor, nextReq, owner, result, sent,
                 pureVars>>

\* mutant: the closure does not wait for the reply
RecvReady_Always(r) == TRUE

\* resp_rx.await is ready: a value was sent, or the Sender was dropped
\* without sending
RecvReady(r) == slot[r] # None \/ ~respond_tx[r]

\* the response the closure returns after resp_rx.await (lib.rs 95-103)
ReplyResponse(r) ==
  IF slot[r] # None THEN to_hyper_response(slot[r][1]) ELSE Internal500

\* mutant: the loop goes on to the next message without the response
\* having been written
Receive_SkipWrite(c) ==
  /\ conn[c].pc = "awaiting"
  /\ LET r == conn[c].cur IN
       /\ RecvReady(r)
       /\ slot' = [slot EXCEPT ![r] = None]
       /\ resp_rx' = [resp_rx EXCEPT ![r] = FALSE]
  /\ conn' = [conn EXCEPT ![c] = [pc |-> "reading", cur |-> 0]]
  /\ UNCHANGED <<mainVars, acceptor, nextReq, owner, queue, where,
                 respond_tx, written, result, sent, sends, pureVars>>

\* resp_rx.await completed: the closure returns the response and hyper
\* writes it before asking for the next message
Receive(c) ==
  /\ conn[c].pc = "awaiting"
  /\ LET r == conn[c].cur IN
       /\ RecvReady(r)
       /\ written' = [written EXCEPT ![r] = Append(@, ReplyResponse(r))]
       /\ slot' = [slot EXCEPT ![r] = None]
       /\ resp_rx' = [resp_rx EXCEPT ![r] = FALSE]
  /\ conn' = [conn EXCEPT ![c] = [pc |-> "reading", cur |-> 0]]
  /\ UNCHANGED <<mainVars, acceptor, nextReq, owner, queue, where,
                 respond_tx, result, sent, sends, pureVars>>

\* serve_connection ends (lib.rs 107-114): the peer closed the connection
\* or its I/O failed.  hyper drops the closure's future where it is
\* suspended: a Request still inside tx.send is dropped, resp_rx is dropped
\* and a value already in the slot is destroyed with it.  Nothing is written
PeerClose(c) ==
  /\ Alive(c)
  /\ conn' = [conn EXCEPT ![c].pc = "closed"]
  /\ LET r == conn[c].cur IN
       IF conn[c].pc = "reading"
         THEN UNCHANGED <<where, respond_tx, resp_rx, slot, sends>>
         ELSE /\ where' = [where EXCEPT ![r] =
                             IF conn[c].pc = "sending"
                               THEN "dropped_torn_down" ELSE @]
              /\ respond_tx' = [respond_tx EXCEPT ![r] =
                             IF conn[c].pc = "sending" THEN FALSE ELSE @]
              /\ resp_rx' = [resp_rx EXCEPT ![r] = FALSE]
              /\ slot' = [slot EXCEPT ![r] = None]
              /\ sends' = [sends EXCEPT ![r] =
                             IF conn[c].pc = "sending"
                               THEN @ \o DropSend(respond_tx[r]) ELSE @]
  /\ UNCHANGED <<mainVars, acceptor, nextReq, owner, queue, written, result,
                 sent, pureVars>>

(* ----- the consumer: Server::next, Request::respond, drops ---------------*)
\* mutant: try_recv instead of recv: None whenever the queue is empty
RecvOutcome_TryRecv ==
  IF queue # <<>> THEN "Some" ELSE "None"

\* the outcome of self.rx.recv().await (lib.rs 124-126): the oldest queued
\* Request; None once the queue is empty and every Sender is gone; Pending
\* otherwise
RecvOutcome ==
  IF queue # <<>> THEN "Some"
  ELSE IF Senders = 0 THEN "None"
  ELSE "Pending"

\* mutant: next() returns the newest queued Request instead of the oldest
ServerNext_Newest ==
  /\ server = "live"
  /\ RecvOutcome # "Pending"
  /\ IF RecvOutcome = "Some"
       THEN /\ where' = [where EXCEPT ![queue[Len(queue)]] = "held"]
            /\ queue' = SubSeq(queue, 1, Len(queue) - 1)
            /\ nextRet' = "Some"
            /\ UNCHANGED noneCount
       ELSE /\ noneCount < MaxNone
            /\ nextRet' = "None"
            /\ noneCount' = noneCount + 1
            /\ UNCHANGED <<where, queue>>
  /\ UNCHANGED <<httpResult, capacity, server, acceptor, conn, nextReq, owner,
                 respond_tx, resp_rx, slot, written, result, sent,
                 sends, pureVars>>

\* Server::next (lib.rs 124-126): self.rx.recv().await hands the consumer
\* the oldest queued Request, or None
ServerNext ==
  /\ server = "live"
  /\ RecvOutcome # "Pending"
  /\ IF RecvOutcome = "Some"
       THEN /\ where' = [where EXCEPT ![Head(queue)] = "held"]
            /\ queue' = Tail(queue)
            /\ nextRet' = "Some"
            /\ UNCHANGED noneCount
       ELSE /\ noneCount < MaxNone
            /\ nextRet' = "None"
            /\ noneCount' = noneCount + 1
            /\ UNCHANGED <<where, queue>>
  /\ UNCHANGED <<httpResult, capacity, server, acceptor, conn, nextReq, owner,
                 respond_tx, resp_rx, slot, written, result, sent,
                 sends, pureVars>>

\* mutant: the result of the oneshot send is ignored
RespondOutcome_IgnoreSend(r) ==
  IF ~respond_tx[r] THEN "AlreadyResponded" ELSE "Ok"

\* what respond() returns (lib.rs 155-161): respond_tx.take() is None, or
\* the oneshot send succeeds while the Receiver is alive and fails otherwise
RespondOutcome(r) ==
  IF ~respond_tx[r] THEN "AlreadyResponded"
  ELSE IF resp_rx[r] THEN "Ok"
  ELSE "ChannelClosed"

\* mutant: respond(&mut self): the Request stays with the consumer
respond_ByRef(r, response) ==
  /\ where[r] = "held"
  /\ result' = [result EXCEPT ![r] = RespondOutcome(r)]
  /\ sent' = [sent EXCEPT ![r] = Some(response)]
  /\ slot' = [slot EXCEPT ![r] =
                IF RespondOutcome(r) = "Ok" THEN Some(response) ELSE @]
  /\ respond_tx' = [respond_tx EXCEPT ![r] = FALSE]
  /\ sends' = [sends EXCEPT ![r] =
                 IF respond_tx[r] THEN Append(@, response) ELSE @]
  /\ UNCHANGED <<mainVars, acceptor, conn, nextReq, owner, queue, where,
                 resp_rx, written, pureVars>>

\* request.respond(response): takes self, so the Request is dropped when
\* the call returns, with respond_tx already None
respond(r, response) ==
  /\ where[r] = "held"
  /\ result' = [result EXCEPT ![r] = RespondOutcome(r)]
  /\ sent' = [sent EXCEPT ![r] = Some(response)]
  /\ slot' = [slot EXCEPT ![r] =
                IF RespondOutcome(r) = "Ok" THEN Some(response) ELSE @]
  /\ respond_tx' = [respond_tx EXCEPT ![r] = FALSE]
  /\ where' = [where EXCEPT ![r] = "responded"]
  /\ sends' = [sends EXCEPT ![r] =
                 (IF respond_tx[r] THEN Append(@, response) ELSE @)
                 \o DropSend(FALSE)]
  /\ UNCHANGED <<mainVars, acceptor, conn, nextReq, owner, queue, resp_rx,
                 written, pureVars>>

\* the consumer lets a Request it pulled go out of scope, or replaces it,
\* without respond(): Drop for Request runs (lib.rs 164-170)
DropRequest(r) ==
  /\ where[r] = "held"
  /\ slot' = [slot EXCEPT ![r] = SlotAfterDrop(r)]
  /\ respond_tx' = [respond_tx EXCEPT ![r] = FALSE]
  /\ where' = [where EXCEPT ![r] = "dropped_by_consumer"]
  /\ sends' = [sends EXCEPT ![r] = @ \o DropSend(respond_tx[r])]
  /\ UNCHANGED <<mainVars, acceptor, conn, nextReq, owner, queue, resp_rx,
                 written, result, sent, pureVars>>

\* mutant: the Requests still queued are leaked instead of dropped
DropServer_LeakQueued ==
  /\ server = "live"
  /\ server' = "dropped"
  /\ UNCHANGED <<httpResult, capacity, nextRet, noneCount, acceptor, conn,
                 nextReq, owner, queue, reqVars, sends, pureVars>>

\* the Server is dropped (lib.rs 31-34): dropping rx closes the channel and
\* drops every Request still queued; dropping _join detaches the
\* acceptance task, which keeps running
DropServer ==
  /\ server = "live"
  /\ server' = "dropped"
  /\ LET Q == {queue[i] : i \in 1..Len(queue)} IN
       /\ slot' = [r \in Reqs |-> IF r \in Q THEN SlotAfterDrop(r) ELSE slot[r]]
       /\ respond_tx' = [r \in Reqs |-> IF r \in Q THEN FALSE ELSE respond_tx[r]]
       /\ where' = [r \in Reqs |-> IF r \in Q THEN "dropped_queued" ELSE where[r]]
       /\ sends' = [r \in Reqs |-> IF r \in Q
                                     THEN sends[r] \o DropSend(respond_tx[r])
                                     ELSE sends[r]]
  /\ queue' = <<>>
  /\ UNCHANGED <<httpResult, capacity, nextRet, noneCount, acceptor, conn,
                 nextReq, owner, resp_rx, written, result, sent,
                 pureVars>>

Next ==
  \/ \E addrValid \in BOOLEAN, cap \in 1..MaxCapacity : http(addrValid, cap)
  \/ \E bindOk \in BOOLEAN : Bind(bindOk)
  \/ \E c \in Conns : Accept(c)
  \/ \E c \in Conns : ReadMessage(c)
  \/ \E c \in Conns : SendResume(c)
  \/ \E c \in Conns : Receive(c)
  \/ \E c \in Conns : PeerClose(c)
  \/ ServerNext
  \/ \E r \in Reqs, response \in UserResponses : respond(r, response)
  \/ \E r \in Reqs : DropRequest(r)
  \/ DropServer

Spec == Init /\ [][Next]_vars

(* ----- specification under fair scheduling -------------------------------*)
\* the runtime polls every woken task: a connection task whose send can
\* complete or whose slot is ready runs; the consumer's loop
\* (examples/hello.rs 9) keeps calling next().  The peer, the consumer's
\* respond()/drop of a Request it holds and the drop of the Server are not
\* forced
Fairness ==
  /\ \A c \in Conns : WF_vars(SendResume(c)) /\ WF_vars(Receive(c))
  /\ WF_vars(ServerNext)

FairSpec == Spec /\ Fairness

(* ----- vocabulary of the properties --------------------------------------*)
\* a connection task has built Request r
Built(r) == owner[r] # 0

\* the closure call that built r has returned: the connection's loop has
\* proceeded past r
Returned(r) == Built(r) /\ conn[owner[r]].cur # r

\* the connection of r was torn down while r was in flight
TornDown(r) ==
  Built(r) /\ conn[owner[r]].cur = r /\ conn[owner[r]].pc = "closed"

\* r was discarded without respond() having been called on it
DiscardedUnanswered(r) ==
  where[r] \in {"dropped_by_consumer", "dropped_queued",
                "dropped_failed_enqueue", "dropped_torn_down"}

\* the requests on the queue
Queued == {queue[i] : i \in 1..Len(queue)}

\* the responses a connection can be given for a Request
ExplicitResponses == {to_hyper_response(u) : u \in UserResponses}
Fallback500 == {to_hyper_response(DropResponse), Internal500}

(* ----- C1 -----------------------------------------------------------------*)
\* C1: for every Request a connection task has built, at most one response
\* is ever written to its connection, and once the connection's loop has
\* proceeded past the Request (the state in which it reads its next
\* message) exactly one has been written: the consumer's explicit
\* Response, the 500 fallback or the 503 fallback.
C1_ExactlyOneResponse ==
  \A r \in Reqs :
    /\ Len(written[r]) <= 1
    /\ Returned(r) <=> Len(written[r]) = 1
    /\ Len(written[r]) = 1 =>
         written[r][1] \in ExplicitResponses \cup Fallback500 \cup {Unavailable503}

\* a connection has served two messages, each with exactly one response
C1_Witness ==
  \E r1, r2 \in Reqs :
    /\ r1 < r2 /\ owner[r1] # 0 /\ owner[r1] = owner[r2]
    /\ Len(written[r1]) = 1 /\ Len(written[r2]) = 1

(* ----- C2 -----------------------------------------------------------------*)
\* C2 as stated: whenever a Request is discarded without respond(), on
\* whatever path, the response delivered on its connection has status 500.
C2_Original ==
  \A r \in Reqs :
    DiscardedUnanswered(r) /\ written[r] # <<>> =>
      written[r][1].status = StatusInternalServerError

\* C2 amended: a Request discarded without respond() after it had been
\* enqueued (dropped by the consumer, replaced, dropped while still queued)
\* has the 500 "No response" delivered on its connection; a Request dropped
\* after a failed enqueue has its 500 discarded unread and its connection
\* is given 503.
C2_DiscardedGets500 ==
  \A r \in Reqs :
    /\ where[r] \in {"dropped_by_consumer", "dropped_queued"} =>
         /\ written[r] # <<>> =>
              /\ written[r][1].status = StatusInternalServerError
              /\ written[r][1].body = "No response"
         /\ Returned(r) => written[r] # <<>>
         /\ conn[owner[r]].pc = "awaiting" /\ conn[owner[r]].cur = r =>
              slot[r] = Some(DropResponse)
    /\ where[r] = "dropped_failed_enqueue" =>
         /\ written[r] # <<>>
         /\ written[r][1].status = StatusServiceUnavailable

\* one Request dropped by the consumer and one dropped while still queued
\* have both had their 500 written
C2_Witness ==
  /\ \E r \in Reqs : where[r] = "dropped_by_consumer" /\ written[r] # <<>>
  /\ \E r \in Reqs : where[r] = "dropped_queued" /\ written[r] # <<>>

(* ----- C3 -----------------------------------------------------------------*)
\* C3 as stated: whenever respond(request, r) returned success, the paired
\* connection task receives exactly r, also when the peer closes the
\* connection: once the task is no longer waiting for the Request, r has
\* been written.
C3_Original ==
  \A r \in Reqs :
    result[r] = "Ok" /\ ~(conn[owner[r]].pc = "awaiting" /\ conn[owner[r]].cur = r)
      => written[r] = sent[r]

\* C3 amended: whenever respond(request, r) returned success, the only
\* Response the paired connection task can receive for that Request is r
\* (same status, headers and body): while the task waits the slot holds r,
\* once its closure has returned exactly r was written, and nothing is
\* written only if the peer closed the connection before the task took r
\* from the slot.
C3_ReceivesExactlyThis ==
  \A r \in Reqs :
    result[r] = "Ok" =>
      /\ written[r] \in {<<>>, sent[r]}
      /\ conn[owner[r]].pc = "awaiting" /\ conn[owner[r]].cur = r => slot[r] = sent[r]
      /\ Returned(r) => written[r] = sent[r]
      /\ written[r] = <<>> =>
           \/ conn[owner[r]].pc = "awaiting" /\ conn[owner[r]].cur = r
           \/ TornDown(r)

\* respond() succeeded with a Response that carries a status and a header,
\* and that Response was written
C3_Witness ==
  \E r \in Reqs :
    /\ result[r] = "Ok"
    /\ written[r] = sent[r]
    /\ sent[r][1].status = 404
    /\ sent[r][1].headers # <<>>

(* ----- C4 -----------------------------------------------------------------*)
\* C4 as stated: respond() can be called a second time on a Request on
\* which it has been called, and that call fails with AlreadyResponded.
C4_Original ==
  \A r \in Reqs :
    result[r] # NotCalled =>
      where[r] = "held" /\ RespondOutcome(r) = "AlreadyResponded"

\* C4 amended: respond() takes the Request by value, so it is called at
\* most once on a Request; that call succeeds or fails with ChannelClosed,
\* never with AlreadyResponded, and after it has returned its result
\* stands, respond_tx stays empty and nothing but the Response of that one
\* call is delivered to the connection.
C4_RespondOnce ==
  [][\A r \in Reqs :
       result[r] # NotCalled =>
         /\ result[r] \in {"Ok", "ChannelClosed"}
         /\ result'[r] = result[r]
         /\ sent'[r] = sent[r]
         /\ ~respond_tx[r] /\ ~respond_tx'[r]
         /\ where'[r] = "responded"
         /\ slot'[r] \in {slot[r], None}
         /\ written'[r] \in {written[r], sent[r]}]_vars

\* respond() has returned success and its Response has been written
C4_Witness ==
  \E r \in Reqs :
    result[r] = "Ok" /\ where[r] = "responded" /\ written[r] = sent[r]

(* ----- C5 -----------------------------------------------------------------*)
\* C5: respond() returns ChannelClosed exactly when the Receiver of the
\* Reply Slot is gone at the time of the call; the Response is then lost:
\* it is not stored in the slot and nothing is ever written for the Request.
C5_ChannelClosed ==
  /\ [][\A r \in Reqs :
          result[r] = NotCalled /\ result'[r] # NotCalled =>
            /\ result'[r] = "ChannelClosed" <=> ~resp_rx[r]
            /\ ~resp_rx[r] => slot'[r] = None /\ written' = written]_vars
  /\ [](\A r \in Reqs :
          result[r] = "ChannelClosed" => written[r] = <<>> /\ slot[r] = None)

\* respond() was called after the connection task had gone and returned
\* ChannelClosed
C5_Witness ==
  \E r \in Reqs : result[r] = "ChannelClosed" /\ TornDown(r)

(* ----- C6 -----------------------------------------------------------------*)
\* C6: a Request whose push failed because the Receiver is gone is never on
\* the queue and never reaches the consumer, its task does not wait on the
\* Reply Slot, and the one response written for it is 503 Service
\* Unavailable.
C6_FailedPushGets503 ==
  \A r \in Reqs :
    /\ where[r] = "dropped_failed_enqueue" =>
         /\ r \notin Queued
         /\ result[r] = NotCalled
         /\ Returned(r)
         /\ ~resp_rx[r]
         /\ Len(written[r]) = 1
         /\ written[r][1].status = StatusServiceUnavailable
         /\ written[r][1].body = "Service Unavailable"
    /\ server = "dropped" => where[r] # "queue" /\ queue = <<>>

\* a push failed after the Server was dropped and 503 was written
C6_Witness ==
  \E r \in Reqs :
    /\ where[r] = "dropped_failed_enqueue"
    /\ written[r] = <<Unavailable503>>
    /\ server = "dropped"

(* ----- C7 -----------------------------------------------------------------*)
\* C7 as stated: under fair scheduling every Request that was built has a
\* response written to its client, the only exception being a Request the
\* consumer has pulled and holds for ever.
C7_Original ==
  \A r \in Reqs :
    [](Built(r) => (<>(written[r] # <<>>) \/ <>[](where[r] = "held")))

\* C7 amended: under fair scheduling every Request that was built has its
\* respond_tx consumed, once and for good, and a response written to its
\* client, with two exceptions: a Request the consumer has pulled and holds
\* for ever, and a Request whose connection the peer closes while it is in
\* flight, for which nothing is written.  Stated per stage: a built Request
\* is answered, written, torn down or reaches the consumer's hands; and
\* once respond_tx is consumed the response is written unless the
\* connection is torn down.
C7_EventuallyAnswered ==
  /\ [][\A r \in Reqs : Built(r) /\ ~respond_tx[r] => ~respond_tx'[r]]_vars
  /\ \A r \in Reqs :
       Built(r) ~> (~respond_tx[r] \/ where[r] = "held")
  /\ \A r \in Reqs :
       (Built(r) /\ ~respond_tx[r]) ~> (written[r] # <<>> \/ TornDown(r))

\* every Request of the run was answered in its own way: one explicitly,
\* one by the 500 fallback, one by the 503 fallback
C7_Witness ==
  \E r1, r2, r3 \in Reqs :
    /\ written[r1] # <<>> /\ where[r1] = "responded"
    /\ written[r2] # <<>> /\ where[r2] \in {"dropped_by_consumer", "dropped_queued"}
    /\ written[r3] # <<>> /\ where[r3] = "dropped_failed_enqueue"

(* ----- C8 -----------------------------------------------------------------*)
\* C8: whenever the socket bind fails, Server::http has returned an error
\* to its caller and no Server handle.
C8_BindFailureSurfaced ==
  acceptor = "panicked" => httpResult = "Err"

(* ----- C9 -----------------------------------------------------------------*)
\* C9: next() suspends while the queue is empty and a Sender is alive,
\* returns the oldest queued Request when there is one, and returns None
\* once the queue is empty and every Sender is gone; after it has returned
\* None once, every later next() returns None and never a Request.
C9_NoneIsFinal ==
  /\ [](server = "live" /\ queue = <<>> /\ Senders > 0 => ~ENABLED ServerNext)
  /\ [](server = "live" /\ queue = <<>> /\ Senders = 0 /\ noneCount < MaxNone
          => ENABLED ServerNext)
  /\ [](nextRet = "None" => queue = <<>> /\ Senders = 0)
  /\ [][\A r \in Reqs :
          where'[r] = "held" /\ where[r] # "held" =>
            queue # <<>> /\ r = Head(queue) /\ nextRet' = "Some"]_vars
  /\ [][noneCount' # noneCount =>
          queue = <<>> /\ Senders = 0 /\ nextRet' = "None"]_vars
  /\ [][nextRet = "None" =>
          /\ nextRet' = "None"
          /\ \A r \in Reqs : where'[r] = "held" => where[r] = "held"]_vars

\* next() has returned None twice in a row
C9_Witness ==
  nextRet = "None" /\ noneCount >= 2

(* ----- C10 ----------------------------------------------------------------*)
\* C10: the queue never holds more Requests than its capacity; a push
\* suspended on a full queue cannot complete while the queue stays full and
\* can complete as soon as a place is free; and while a connection is
\* suspended in its push, every other connection can still take its ready
\* reply and read its next message.
C10_Backpressure ==
  /\ Len(queue) <= capacity
  /\ \A c \in Conns :
       conn[c].pc = "sending" =>
         /\ server = "live" /\ Len(queue) = capacity => ~ENABLED SendResume(c)
         /\ Len(queue) < capacity => ENABLED SendResume(c)
         /\ \A d \in Conns \ {c} :
              /\ conn[d].pc = "awaiting" /\ RecvReady(conn[d].cur)
                   => ENABLED Receive(d)
              /\ conn[d].pc = "reading" /\ nextReq \in Reqs
                   => ENABLED ReadMessage(d)

\* with capacity 1, one connection is suspended on the full queue while
\* another connection has its reply ready to take
C10_Witness ==
  /\ capacity = 1
  /\ server = "live"
  /\ Len(queue) = capacity
  /\ \E c, d \in Conns :
       /\ c # d
       /\ conn[c].pc = "sending"
       /\ conn[d].pc = "awaiting"
       /\ RecvReady(conn[d].cur)

(* ----- C11 ---------------------------------------------------------------*)
\* C11: the consumer receives the Requests from next() in the order their
\* pushes completed, over all connections.  While the Server lives the
\* queue changes in two ways only: a Request whose push completes joins at
\* the tail, behind every Request pushed before it, and next() takes the
\* Request at the head, the oldest one.  So a Request pushed later is never
\* returned before one pushed earlier, no queued Request is passed over,
\* and a Request that was returned is never on the queue again
C11_FifoOrder ==
  [][ /\ (server = "live" /\ server' = "live") =>
            \/ queue' = queue
            \/ \E r \in Reqs :
                  /\ where[r] \in {"unbuilt", "task"}
                  /\ where'[r] = "queue"
                  /\ queue' = Append(queue, r)
            \/ /\ queue # <<>>
               /\ queue' = Tail(queue)
               /\ where[Head(queue)] = "queue"
               /\ where'[Head(queue)] = "held"
               /\ nextRet' = "Some"
      /\ \A r \in Reqs :
            (where[r] # "held" /\ where'[r] = "held") =>
               /\ queue # <<>>
               /\ r = Head(queue)
               /\ queue' = Tail(queue)
      /\ \A r \in Reqs :
            where[r] \notin {"unbuilt", "task", "queue"} =>
               \A i \in 1..Len(queue') : queue'[i] # r
      /\ \A i, j \in 1..Len(queue') : i # j => queue'[i] # queue'[j]
    ]_vars

\* two Requests of different connections filled the queue, a third push is
\* suspended behind them, and next() has returned the first of the two
C11_Witness ==
  \E r1, r2, r3 \in Reqs :
    /\ capacity = 2
    /\ owner[r1] # owner[r2]
    /\ where[r1] = "held"
    /\ queue = <<r2>>
    /\ where[r3] = "task"
    /\ nextRet = "Some"

(* ----- C12 ---------------------------------------------------------------*)
\* the Request is in flight: inside a suspended push, on the queue, held by
\* the consumer, or its connection task awaits its reply
InFlight(r) ==
  \/ where[r] \in {"task", "queue", "held"}
  \/ /\ owner[r] # 0
     /\ conn[owner[r]].pc \in {"sending", "awaiting"}
     /\ conn[owner[r]].cur = r

\* C12: a connection has at most one Request in flight at any time; its
\* next Request is built only after the response of the one before has
\* been written, so the Requests of one connection reach the consumer and
\* are answered in the order they arrived
C12_OneInFlightPerConnection ==
  /\ \A c \in Conns :
        Cardinality({r \in Reqs : owner[r] = c /\ InFlight(r)}) <= 1
  /\ \A r1, r2 \in Reqs :
        (r1 < r2 /\ owner[r2] # 0 /\ owner[r1] = owner[r2]) =>
           /\ ~InFlight(r1)
           /\ Len(written[r1]) = 1

\* a connection whose first Request was answered through the consumer has
\* its second Request held by the consumer
C12_Witness ==
  \E r1, r2 \in Reqs :
    /\ r1 < r2
    /\ owner[r1] # 0
    /\ owner[r1] = owner[r2]
    /\ where[r1] = "responded"
    /\ Len(written[r1]) = 1
    /\ where[r2] = "held"
    /\ conn[owner[r2]] = [pc |-> "awaiting", cur |-> r2]

(* ----- Header::from_str applied to every line ----------------------------*)
\* the characters the lines are made of: an upper-case and a lower-case
\* token character, the colon, a blank and a control character
LineChars == {"A", "b", ":", " ", "^A"}
Lines == UNION {[1..n -> LineChars] : n \in 0..MaxLine}

HeaderInit == InitBridge /\ InitNoResponse /\ line \in Lines /\ parsed = None

\* line.parse::<Header>()
Parse ==
  /\ parsed = None
  /\ parsed' = Some(Header_from_str(line))
  /\ UNCHANGED <<bridgeVars, line, resp, made, steps>>

HeaderNext == Parse

HeaderSpec == HeaderInit /\ [][HeaderNext]_vars

(* ----- C14 ---------------------------------------------------------------*)
\* t is s without the whitespace around it
IsTrimOf(t, s) ==
  \E a \in 1..(Len(s) + 1), b \in 0..Len(s) :
    /\ t = SubSeq(s, a, b)
    /\ \A i \in 1..(a - 1) : s[i] \in WhiteSpace
    /\ \A i \in (b + 1)..Len(s) : s[i] \in WhiteSpace
    /\ a <= b => (s[a] \notin WhiteSpace /\ s[b] \notin WhiteSpace)
    /\ a > b => (a = b + 1 /\ \A i \in 1..Len(s) : s[i] \in WhiteSpace)

\* header names are compared without regard to case
SameName(n, m) == ToLower(n) = ToLower(m)

\* C14: parsing a "Name: value" line cuts it once, at its first colon, and
\* trims the whitespace around both parts.  A line without a colon fails
\* with InvalidFormat; a name part that is not a token (empty, or holding a
\* blank or a control character) fails with InvalidName; otherwise a value
\* part holding a control character fails with InvalidValue; otherwise the
\* result is the pair of the trimmed name (as a header name, so up to case)
\* and the trimmed value, later colons staying in the value
C14_ParseHeader ==
  parsed # None =>
    LET res == parsed[1] IN
      IF \A i \in 1..Len(line) : line[i] # ":"
        THEN res.tag = "Err" /\ res.err = "InvalidFormat"
        ELSE \E i \in 1..Len(line) :
               /\ line[i] = ":"
               /\ \A j \in 1..(i - 1) : line[j] # ":"
               /\ \E a \in 1..i, b \in 0..(i - 1),
                     c \in (i + 1)..(Len(line) + 1), d \in i..Len(line) :
                    LET n == SubSeq(line, a, b)
                        v == SubSeq(line, c, d)
                    IN /\ IsTrimOf(n, SubSeq(line, 1, i - 1))
                       /\ IsTrimOf(v, SubSeq(line, i + 1, Len(line)))
                       /\ IF n = <<>> \/ \E k \in 1..Len(n) : n[k] \notin TokenChars
                            THEN res.tag = "Err" /\ res.err = "InvalidName"
                            ELSE IF \E k \in 1..Len(v) : v[k] \in ControlChars
                              THEN res.tag = "Err" /\ res.err = "InvalidValue"
                              ELSE /\ res.tag = "Ok"
                                   /\ SameName(res.val[1], n)
                                   /\ res.val[2] = v

\* "A ::b" was parsed: the name "A" lost its blank, the second colon stayed
\* in the value ":b"
C14_Witness ==
  /\ line = <<"A", " ", ":", ":", "b">>
  /\ parsed = Some(Ok(Header(<<"a">>, <<":", "b">>)))

(* ----- the constructors and builders of Response (lib.rs 186-232) --------*)
\* the u16 codes supplied: below, at and above both ends of 100..=999
Codes == {0, 99, 100, 404, 999, 1000, 65535}
Texts == {"", "ok"}
\* names and values handed to Header::new for with_header
HeaderNames == {<<"A">>, <<"a">>, ContentType}
HeaderValues == {<<"a">>, <<"b">>}
\* values handed to with_content_type: plain, padded, with a control byte
ContentTypes == {<<"a">>, <<" ", "b">>, <<"^A">>}

ResponseInit == InitBridge /\ InitNoLine /\ InitNoResponse

FromData(data) ==
  /\ resp = None
  /\ resp' = Some(from_data(data))
  /\ made' = Some([fn |-> "from_data", text |-> data, code |-> None])
  /\ UNCHANGED <<bridgeVars, line, parsed, steps>>

FromString(t) ==
  /\ resp = None
  /\ resp' = Some(from_string(t))
  /\ made' = Some([fn |-> "from_string", text |-> t, code |-> None])
  /\ UNCHANGED <<bridgeVars, line, parsed, steps>>

FromStatusAndString(code, t) ==
  /\ resp = None
  /\ resp' = Some(from_status_and_string(code, t))
  /\ made' = Some([fn |-> "from_status_and_string", text |-> t,
                   code |-> Some(code)])
  /\ UNCHANGED <<bridgeVars, line, parsed, steps>>

Empty(code) ==
  /\ resp = None
  /\ resp' = Some(empty(code))
  /\ made' = Some([fn |-> "empty", text |-> "", code |-> Some(code)])
  /\ UNCHANGED <<bridgeVars, line, parsed, steps>>

WithStatusCode(code) ==
  /\ resp # None
  /\ Len(steps) < MaxSteps
  /\ resp' = Some(with_status_code(resp[1], code))
  /\ steps' = Append(steps, [op |-> "with_status_code", arg |-> <<code>>])
  /\ UNCHANGED <<bridgeVars, line, parsed, made>>

\* with_header(Header::new(name, value)?): no Header, no call
WithHeader(name, value) ==
  /\ resp # None
  /\ Len(steps) < MaxSteps
  /\ Header_new(name, value).tag = "Ok"
  /\ LET header == Header_new(name, value).val IN
       resp' = Some(with_header(resp[1], header[1], header[2]))
  /\ steps' = Append(steps, [op |-> "with_header", arg |-> <<name, value>>])
  /\ UNCHANGED <<bridgeVars, line, parsed, made>>

\* with_content_type(value): a value Header::from_str rejects panics in
\* .expect("valid content type") and the call returns no Response
WithContentType(value) ==
  /\ resp # None
  /\ Len(steps) < MaxSteps
  /\ ContentTypeHeader(value).tag = "Ok"
  /\ resp' = Some(with_content_type(resp[1], value))
  /\ steps' = Append(steps, [op |-> "with_content_type", arg |-> <<value>>])
  /\ UNCHANGED <<bridgeVars, line, parsed, made>>

ResponseNext ==
  \/ \E data \in Texts : FromData(data)
  \/ \E t \in Texts : FromString(t)
  \/ \E code \in Codes, t \in Texts : FromStatusAndString(code, t)
  \/ \E code \in Codes : Empty(code)
  \/ \E code \in Codes : WithStatusCode(code)
  \/ \E name \in HeaderNames, value \in HeaderValues : WithHeader(name, value)
  \/ \E value \in ContentTypes : WithContentType(value)

ResponseSpec == ResponseInit /\ [][ResponseNext]_vars

(* ----- C13 ---------------------------------------------------------------*)
\* the positions of the with_status_code calls among the builder calls
StatusSteps == {i \in 1..Len(steps) : steps[i].op = "with_status_code"}

\* the code supplied last: by the last with_status_code call, else by the
\* constructor (None for from_string and from_data)
SuppliedCode ==
  IF StatusSteps # {}
    THEN Some(steps[CHOOSE i \in StatusSteps :
                      \A j \in StatusSteps : j <= i].arg[1])
    ELSE made[1].code

\* C13: the status of a Response is the numeric code supplied last
\* (from_status_and_string, empty, with_status_code) when that is a valid
\* status code, one StatusCode::from_u16 accepts, 100 to 999, and 200 when
\* it is not; a Response built from text or raw bytes alone has status 200
C13_StatusOrDefault ==
  resp # None =>
    resp[1].status =
      IF SuppliedCode = None THEN 200
      ELSE IF SuppliedCode[1] \in 100..999 THEN SuppliedCode[1]
      ELSE 200

\* from_status_and_string(404, "ok").with_status_code(1000) has status 200
C13_Witness ==
  /\ made = Some([fn |-> "from_status_and_string", text |-> "ok",
                  code |-> Some(404)])
  /\ steps = <<[op |-> "with_status_code", arg |-> <<1000>>]>>
  /\ resp # None
  /\ resp[1].status = 200

(* ----- C15 ---------------------------------------------------------------*)
\* the builder call sets a header, and the name and the value it sets: the
\* Header of with_header; for with_content_type the Header parsed from
\* "Content-Type: value", whose value is trimmed
SetsHeader(st) == st.op \in {"with_header", "with_content_type"}
StepName(st) == IF st.op = "with_header" THEN st.arg[1] ELSE ContentType
StepValue(st) == IF st.op = "with_header" THEN st.arg[2] ELSE trim(st.arg[1])

\* the builder calls that set the header called name
StepsSetting(name) ==
  {j \in 1..Len(steps) :
     SetsHeader(steps[j]) /\ SameName(StepName(steps[j]), name)}

\* after the builder calls in steps on from_string(t): the body is t, the
\* status is 200 or what the last with_status_code made it (C13), every
\* header was set by a call and carries the value of the last call that
\* set its name, every name set is present, once
BuiltAsStepsSay ==
  (resp # None /\ made[1].fn = "from_string") =>
    LET r == resp[1] IN
      /\ r.body = made[1].text
      /\ StatusSteps = {} => r.status = 200
      /\ StatusSteps # {} =>
            r.status = IF SuppliedCode[1] \in 100..999
                         THEN SuppliedCode[1] ELSE 200
      /\ \A i \in 1..Len(r.headers) :
            \E j \in StepsSetting(r.headers[i][1]) :
              /\ \A k \in StepsSetting(r.headers[i][1]) : k <= j
              /\ r.headers[i][2] = StepValue(steps[j])
      /\ \A j \in 1..Len(steps) :
            SetsHeader(steps[j]) =>
              \E i \in 1..Len(r.headers) :
                SameName(r.headers[i][1], StepName(steps[j]))
      /\ \A i1, i2 \in 1..Len(r.headers) :
            i1 # i2 => ~SameName(r.headers[i1][1], r.headers[i2][1])

\* a builder call leaves the body alone; with_status_code leaves the
\* headers alone; with_header and with_content_type leave the status and
\* the headers of every other name alone
StepFrame ==
  (resp # None /\ steps' # steps) =>
    LET st == steps'[Len(steps')]
        r == resp[1]
        r2 == resp'[1]
    IN /\ r2.body = r.body
       /\ st.op = "with_status_code" => r2.headers = r.headers
       /\ SetsHeader(st) =>
            /\ r2.status = r.status
            /\ \A i \in 1..Len(r.headers) :
                  ~SameName(r.headers[i][1], StepName(st)) =>
                     \E i2 \in 1..Len(r2.headers) : r2.headers[i2] = r.headers[i]

\* C15: after any sequence of with_header, with_content_type and
\* with_status_code on a Response built from text t, the body is still t,
\* the status is 200 unless a status step changed it, and the headers are
\* exactly those added, each name with the value of the last step that set
\* it; each step changes only the field it names
C15_BuilderFrame == []BuiltAsStepsSay /\ [][StepFrame]_vars

\* from_string("ok") with_header(Content-Type: a), then
\* with_content_type(" b"), then with_status_code(404): one content-type
\* header, with the value of the second call
C15_Witness ==
  /\ made = Some([fn |-> "from_string", text |-> "ok", code |-> None])
  /\ steps = <<[op |-> "with_header", arg |-> <<ContentType, <<"a">>>>],
               [op |-> "with_content_type", arg |-> << <<" ", "b">> >>],
               [op |-> "with_status_code", arg |-> <<404>>]>>
  /\ resp = Some([status |-> 404,
                  headers |-> << <<ToLower(ContentType), <<"b">>>> >>,
                  body |-> "ok"])

(* ----- C16 ---------------------------------------------------------------*)
\* the Request value has been dropped: after respond(), by the consumer, by
\* the drop of the Server, inside a failed tx.send, or with its task
Discarded(r) ==
  where[r] \in {"responded", "dropped_by_consumer", "dropped_queued",
                "dropped_failed_enqueue", "dropped_torn_down"}

\* C16: at most one value is ever sent into the Reply Slot of a Request,
\* and once the Request has been discarded exactly one send has been made:
\* the explicit Response alone if respond() was called, its Drop adding
\* nothing, and the 500 fallback alone if it was not
C16_ExactlyOneSend ==
  \A r \in Reqs :
    /\ Len(sends[r]) <= 1
    /\ ~Discarded(r) => sends[r] = <<>>
    /\ Discarded(r) => Len(sends[r]) = 1
    /\ where[r] = "responded" => (sent[r] # None /\ sends[r] = <<sent[r][1]>>)
    /\ (Discarded(r) /\ where[r] # "responded") =>
          (sent[r] = None /\ sends[r] = <<DropResponse>>)

\* one Request was answered with respond() and dropped by it, another was
\* dropped by the consumer unanswered
C16_Witness ==
  \E r1, r2 \in Reqs :
    /\ where[r1] = "responded"
    /\ sends[r1] = <<sent[r1][1]>>
    /\ sends[r1] # <<DropResponse>>
    /\ where[r2] = "dropped_by_consumer"
    /\ sends[r2] = <<DropResponse>>

(* ----- C17 ---------------------------------------------------------------*)
\* C17 as stated: once the Server is dropped, every connection task
\* suspended on a push eventually has 503 written to its connection.
C17_Original ==
  \A r \in Reqs :
    (server = "dropped" /\ where[r] = "task") ~> (written[r] # <<>>)

\* C17 amended: dropping the Server closes the queue.  From then on every
\* poll of a push fails: a task that was suspended on a full queue does not
\* stay suspended, a push attempted afterwards fails at once, none joins
\* the queue, and each such connection is written 503 Service Unavailable,
\* unless its peer closes the connection while the task is still suspended
C17_ClosedQueueFailsPushes ==
  /\ [](server = "dropped" => (SendOutcome = "Err" /\ queue = <<>>))
  /\ [][\A r \in Reqs :
          (server = "dropped" /\ where[r] \in {"unbuilt", "task"}
             /\ where'[r] # where[r]) =>
            \/ /\ where'[r] = "dropped_failed_enqueue"
               /\ written'[r] = <<Unavailable503>>
            \/ /\ where[r] = "task"
               /\ where'[r] = "dropped_torn_down"
               /\ TornDown(r)']_vars
  /\ \A r \in Reqs :
       (server = "dropped" /\ where[r] = "task") ~>
          (written[r] = <<Unavailable503>> \/ TornDown(r))

\* the Server is dropped; one task is still suspended on its push, another
\* connection pushed after the drop and was written 503
C17_Witness ==
  \E r1, r2 \in Reqs :
    /\ server = "dropped"
    /\ where[r1] = "task"
    /\ conn[owner[r1]] = [pc |-> "sending", cur |-> r1]
    /\ where[r2] = "dropped_failed_enqueue"
    /\ written[r2] = <<Unavailable503>>

(* ----- C18 ---------------------------------------------------------------*)
\* the response written for the 500 fallback Drop for Request sends
DropResponseWritten == to_hyper_response(DropResponse)

\* C18 as stated: a Request that was queued when the Server was dropped has
\* the 500 fallback written to its waiting connection, eventually.
C18_Original ==
  \A r \in Reqs :
    (where[r] = "dropped_queued" /\ conn[owner[r]].pc = "awaiting"
       /\ conn[owner[r]].cur = r)
      ~> (written[r] # <<>>)

\* C18 amended: the drop of the Server discards every Request still queued,
\* each with the 500 fallback sent into its Reply Slot; the connection
\* waiting for it is written that 500 "No response", unless its peer closes
\* the connection first; none is left waiting for ever and none is written
\* 503 or anything else
C18_QueuedGet500OnDrop ==
  /\ [][(server = "live" /\ server' = "dropped") =>
          /\ queue' = <<>>
          /\ \A r \in Queued :
                /\ where'[r] = "dropped_queued"
                /\ sends'[r] = <<DropResponse>>
                /\ resp_rx[r] => slot'[r] = Some(DropResponse)]_vars
  /\ [](\A r \in Reqs :
          where[r] = "dropped_queued" =>
            /\ written[r] \in {<<>>, <<DropResponseWritten>>}
            /\ result[r] = NotCalled)
  /\ \A r \in Reqs :
       (where[r] = "dropped_queued") ~>
          (written[r] = <<DropResponseWritten>> \/ TornDown(r))

\* two Requests were queued when the Server was dropped: the connection of
\* one has been written the 500 fallback, the other is about to be
C18_Witness ==
  \E r1, r2 \in Reqs :
    /\ r1 # r2
    /\ server = "dropped"
    /\ where[r1] = "dropped_queued"
    /\ written[r1] = <<DropResponseWritten>>
    /\ written[r1][1].status = 500
    /\ where[r2] = "dropped_queued"
    /\ slot[r2] = Some(DropResponse)
    /\ conn[owner[r2]] = [pc |-> "awaiting", cur |-> r2]

(* ----- C19 ---------------------------------------------------------------*)
\* C19: every Request next() has returned holds its reply channel
\* (respond_tx is Some), and respond() consumes the Request, so it is
\* called at most once on it: respond() returns Ok or ChannelClosed, never
\* AlreadyResponded
C19_NeverAlreadyResponded ==
  \A r \in Reqs :
    /\ where[r] = "held" =>
         /\ respond_tx[r]
         /\ result[r] = NotCalled
         /\ RespondOutcome(r) \in {"Ok", "ChannelClosed"}
    /\ result[r] \in {NotCalled, "Ok", "ChannelClosed"}
    /\ result[r] # NotCalled => (where[r] = "responded" /\ ~respond_tx[r])

\* respond() has returned Ok for one Request and ChannelClosed for another
C19_Witness ==
  \E r1, r2 \in Reqs :
    /\ where[r1] = "responded" /\ result[r1] = "Ok"
    /\ where[r2] = "responded" /\ result[r2] = "ChannelClosed"

(* ----- C20 ---------------------------------------------------------------*)
\* the acceptance task has not terminated
Accepting == acceptor \in {"spawned", "listening"}

\* C20: while the acceptance task runs it holds a Sender, so next() on a
\* live Server never returns None, whether or not a connection is open: on
\* an empty queue it stays suspended.  next() has returned None only after
\* the acceptance task has terminated (its bind failed) with the queue
\* empty
C20_NoNoneWhileAccepting ==
  /\ Accepting => (Senders >= 1 /\ nextRet # "None" /\ noneCount = 0)
  /\ (Accepting /\ server = "live" /\ queue = <<>>) =>
        (RecvOutcome = "Pending" /\ ~ENABLED ServerNext)
  /\ nextRet = "None" => (acceptor = "panicked" /\ queue = <<>>)
  /\ noneCount > 0 => acceptor = "panicked"

\* the consumer has been handed a Request, every connection accepted so far
\* is closed again, the queue is empty: next() is suspended
C20_Witness ==
  /\ acceptor = "listening"
  /\ server = "live"
  /\ queue = <<>>
  /\ \E c \in Conns : conn[c].pc = "closed"
  /\ \A c \in Conns : ~Alive(c)
  /\ nextRet = "Some"
  /\ RecvOutcome = "Pending"
====
